---- MODULE Spec2Model ----
(***************************************************************************)
(* Model of ddl_pre_commit_checker: DdlChecker.check_ddl (the static pass  *)
(* _check_ddl_syntax followed by _execute_ddl against a disposable         *)
(* postgres container).  Texts are sequences of one-character strings, so  *)
(* that splitting, prefix tests, tokenizing and case folding are computed  *)
(* as the Python code computes them.                                       *)
(***************************************************************************)
EXTENDS Integers, Sequences, FiniteSets, TLC

(***************************************************************************)
(* Bounds of the model.                                                    *)
(***************************************************************************)
MaxStmts == 3

MaxPolls == 2

(***************************************************************************)
(* Characters and text primitives (Python str / re semantics).             *)
(***************************************************************************)
DQ == "\""

NL == "\n"

LowerSeq == <<"a", "b", "c", "d", "e", "f", "g", "h", "i", "j", "k", "l", "m",
              "n", "o", "p", "q", "r", "s", "t", "u", "v", "w", "x", "y", "z">>

UpperSeq == <<"A", "B", "C", "D", "E", "F", "G", "H", "I", "J", "K", "L", "M",
              "N", "O", "P", "Q", "R", "S", "T", "U", "V", "W", "X", "Y", "Z">>

LowerLetters == {LowerSeq[i] : i \in 1..26}

UpperLetters == {UpperSeq[i] : i \in 1..26}

DigitChars == {"0", "1", "2", "3", "4", "5", "6", "7", "8", "9"}

\* the characters str.split() with no argument treats as separators
Whitespace == {" ", NL, "\t"}

\* the character class [a-z0-9_] of the ALTER TABLE pattern
AlterNameChars == LowerLetters \cup DigitChars \cup {"_"}

\* s[i..] begins with p
HasAt(s, i, p) ==
    /\ i >= 1
    /\ i + Len(p) - 1 <= Len(s)
    /\ \A k \in 1..Len(p) : s[i + k - 1] = p[k]

\* str.startswith
StartsWith(s, p) == HasAt(s, 1, p)

\* the operator `p in s` on strings
Contains(s, p) == \E i \in 1..(Len(s) - Len(p) + 1) : HasAt(s, i, p)

\* str.lower on one character
LowerChar(c) ==
    IF c \in UpperLetters
    THEN LowerSeq[CHOOSE i \in 1..26 : UpperSeq[i] = c]
    ELSE c

\* str.lower (concatenated with the empty text so that the result is held
\* as a sequence of characters)
Lower(s) == [i \in 1..Len(s) |-> LowerChar(s[i])] \o <<>>

\* re.sub(r"\"", "", s)
RemoveQuotes(s) == SelectSeq(s, LAMBDA c : c # DQ)

Min(S) == CHOOSE x \in S : \A y \in S : x <= y

Max(S) == CHOOSE x \in S : \A y \in S : y <= x

\* the first position at or after i whose character is in class,
\* Len(s) + 1 if there is none
FirstIn(s, i, class) ==
    CHOOSE k \in i..(Len(s) + 1) :
        /\ k = Len(s) + 1 \/ s[k] \in class
        /\ \A j \in i..(k - 1) : s[j] \notin class

\* the first position at or after i whose character is outside class,
\* Len(s) + 1 if there is none
FirstNotIn(s, i, class) ==
    CHOOSE k \in i..(Len(s) + 1) :
        /\ k = Len(s) + 1 \/ s[k] \notin class
        /\ \A j \in i..(k - 1) : s[j] \in class

\* the first position at or after i where two line breaks begin,
\* Len(s) + 1 if there is none
FirstDoubleNewline(s, i) ==
    CHOOSE k \in i..(Len(s) + 1) :
        /\ k = Len(s) + 1 \/ HasAt(s, k, <<NL, NL>>)
        /\ \A j \in i..(k - 1) : ~HasAt(s, j, <<NL, NL>>)

RECURSIVE SubDoubleNewlineFrom(_, _)
SubDoubleNewlineFrom(s, i) ==
    LET k == FirstDoubleNewline(s, i)
    IN  IF k > Len(s) THEN SubSeq(s, i, Len(s))
        ELSE SubSeq(s, i, k - 1) \o SubDoubleNewlineFrom(s, k + 2)

\* re.sub(r"\n{2}", "", s): every non-overlapping pair of line breaks,
\* scanning from the left, is deleted
SubDoubleNewline(s) == SubDoubleNewlineFrom(s, 1)

RECURSIVE SplitOnFrom(_, _, _)
SplitOnFrom(s, sep, i) ==
    LET k == FirstIn(s, i, {sep})
    IN  IF k > Len(s) THEN <<SubSeq(s, i, Len(s))>>
        ELSE <<SubSeq(s, i, k - 1)>> \o SplitOnFrom(s, sep, k + 1)

\* str.split(sep) for a one-character separator: the pieces between the
\* separators, empty pieces and the piece after the last separator included
SplitOn(s, sep) == SplitOnFrom(s, sep, 1)

RECURSIVE SplitFrom(_, _)
SplitFrom(s, i) ==
    LET start == FirstNotIn(s, i, Whitespace)
        end == FirstIn(s, start, Whitespace)
    IN  IF start > Len(s) THEN <<>>
        ELSE <<SubSeq(s, start, end - 1)>> \o SplitFrom(s, end)

\* str.split(): the maximal runs of non-whitespace characters
Split(s) == SplitFrom(s, 1)

(***************************************************************************)
(* Literals of ddl_checker.py.                                             *)
(***************************************************************************)
CreateTableText == <<"C", "R", "E", "A", "T", "E", " ", "T", "A", "B", "L", "E">>

CreateIndexText == <<"C", "R", "E", "A", "T", "E", " ", "I", "N", "D", "E", "X">>

CreateUniqueIndexText ==
    <<"C", "R", "E", "A", "T", "E", " ", "U", "N", "I", "Q", "U", "E", " ",
      "I", "N", "D", "E", "X">>

AlterTableText == <<"A", "L", "T", "E", "R", " ", "T", "A", "B", "L", "E", " ">>

AddConstraintText ==
    <<" ", "A", "D", "D", " ", "C", "O", "N", "S", "T", "R", "A", "I", "N", "T">>

PrimaryKeyText == <<"P", "R", "I", "M", "A", "R", "Y", " ", "K", "E", "Y">>

PrimaryWord == <<"P", "R", "I", "M", "A", "R", "Y">>

KeyWord == <<"K", "E", "Y">>

ForeignWord == <<"F", "O", "R", "E", "I", "G", "N">>

UniqueWord == <<"U", "N", "I", "Q", "U", "E">>

\* maximum identifier length tested by the three length rules
NameLimit == 63

(***************************************************************************)
(* Diagnostics.  A message is the f-string template that produced it       *)
(* (kind) together with the values interpolated into it.                   *)
(***************************************************************************)
Msg(kind, name, extra, count) ==
    [kind |-> kind, name |-> name, extra |-> extra, count |-> count]

TableLenMsg(table_name) == Msg("table_len", table_name, <<>>, 0)

IndexCaseMsg(index_name) == Msg("index_case", index_name, <<>>, 0)

IndexLenMsg(index_name) == Msg("index_len", index_name, <<>>, 0)

IdentCaseMsg(identifier) == Msg("ident_case", identifier, <<>>, 0)

IdentLenMsg(identifier) == Msg("ident_len", identifier, <<>>, Len(identifier))

\* an ordering message without the table name
OrderMsgUnnamed(table_name) == Msg("order", <<>>, <<>>, 0)

OrderMsg(table_name) == Msg("order", table_name, <<>>, 0)

NoPrimaryKeyMsg(table_name) == Msg("no_pk", table_name, <<>>, 0)

PartitionMsg(table_name, column_name) ==
    Msg("partition", table_name, column_name, 0)

RawMsg(error_text) == Msg("raw", error_text, <<>>, 0)

\* a list that grows at the front
Prepended(msgs, added) == added \o msgs

\* list.append of the messages a step produced, in the order produced
Appended(msgs, added) == msgs \o added

(***************************************************************************)
(* The per-statement checkers.  Each returns the effect of one call:       *)
(* fault (an IndexError left the method), names (the new value of          *)
(* _no_primary_key_table_names) and added (the messages appended before    *)
(* the method returned or raised).  Python's tokens[k] is tokens[k + 1].   *)
(***************************************************************************)
Effect(fault, names, added) ==
    [fault |-> fault, names |-> names, added |-> added]

\* re.search(r"^(?=.*[a-z])(?=.*[A-Z]).*$", text) on a text without line
\* breaks
HasMixedCase(text) ==
    /\ \E i \in 1..Len(text) : text[i] \in LowerLetters
    /\ \E i \in 1..Len(text) : text[i] \in UpperLetters

\* a case rule that does not look at the quotes
CheckMixIgnoringQuotes(text) == ~HasMixedCase(text)

CheckMixUpperLowerCaseText(text) ==
    IF HasMixedCase(text)
    THEN IF ~(text[1] = DQ /\ text[Len(text)] = DQ) THEN FALSE ELSE TRUE
    ELSE TRUE

\* a length rule that already rejects a name of 63 characters
ExceedsNameLimitInclusive(name) == Len(name) >= NameLimit

\* len(name) > 63
ExceedsNameLimit(name) == Len(name) > NameLimit

CheckCreateTableQuery(query, names) ==
    LET tokens == Split(query)
    IN  IF Len(tokens) < 3 THEN Effect(TRUE, names, <<>>)
        ELSE LET table_name == tokens[3]
             IN  Effect(FALSE,
                        IF ~Contains(query, PrimaryKeyText)
                        THEN names \cup {table_name} ELSE names,
                        IF ExceedsNameLimit(table_name)
                        THEN <<TableLenMsg(table_name)>> ELSE <<>>)

\* tokens[3] if is_unique else tokens[2]
IndexNamePosition(is_unique) == IF is_unique THEN 4 ELSE 3

CheckCreateIndexQuery(query, is_unique, names) ==
    LET tokens == Split(query)
    IN  IF Len(tokens) < IndexNamePosition(is_unique)
        THEN Effect(TRUE, names, <<>>)
        ELSE LET index_name == tokens[IndexNamePosition(is_unique)]
             IN  Effect(FALSE, names,
                        (IF ~CheckMixUpperLowerCaseText(index_name)
                         THEN <<IndexCaseMsg(index_name)>> ELSE <<>>)
                        \o (IF ExceedsNameLimit(index_name)
                            THEN <<IndexLenMsg(index_name)>> ELSE <<>>))

\* a checker that adds the table when it was not pending
CheckAlterTogglingPending(query, names) ==
    LET tokens == Split(query)
    IN  IF Len(tokens) < 6 THEN Effect(TRUE, names, <<>>)
        ELSE
        LET table_name == tokens[3]
            identifier == tokens[6]
            first == (IF ~CheckMixUpperLowerCaseText(identifier)
                      THEN <<IdentCaseMsg(identifier)>> ELSE <<>>)
                     \o (IF ExceedsNameLimit(RemoveQuotes(identifier))
                         THEN <<IdentLenMsg(identifier)>> ELSE <<>>)
        IN  IF Len(tokens) < 7 THEN Effect(TRUE, names, first)
            ELSE IF tokens[7] \in {PrimaryWord, ForeignWord} /\ Len(tokens) < 8
            THEN Effect(TRUE, names, first)
            ELSE IF tokens[7] = PrimaryWord /\ tokens[8] = KeyWord
            THEN IF table_name \in names
                 THEN Effect(FALSE, names \ {table_name}, first)
                 ELSE Effect(FALSE, names \cup {table_name},
                             first \o <<OrderMsg(table_name)>>)
            ELSE Effect(FALSE, names, first)

CheckAlterTableAddConstraintQuery(query, names) ==
    LET tokens == Split(query)
    IN  IF Len(tokens) < 6 THEN Effect(TRUE, names, <<>>)
        ELSE
        LET table_name == tokens[3]
            identifier == tokens[6]
            first == (IF ~CheckMixUpperLowerCaseText(identifier)
                      THEN <<IdentCaseMsg(identifier)>> ELSE <<>>)
                     \o (IF ExceedsNameLimit(RemoveQuotes(identifier))
                         THEN <<IdentLenMsg(identifier)>> ELSE <<>>)
        IN  IF Len(tokens) < 7 THEN Effect(TRUE, names, first)
            ELSE IF tokens[7] \in {PrimaryWord, ForeignWord} /\ Len(tokens) < 8
            THEN Effect(TRUE, names, first)
            ELSE IF tokens[7] = PrimaryWord /\ tokens[8] = KeyWord
            THEN IF table_name \in names
                 THEN Effect(FALSE, names \ {table_name}, first)
                 ELSE Effect(FALSE, names, first \o <<OrderMsg(table_name)>>)
            ELSE Effect(FALSE, names, first)

\* re.match("ALTER TABLE [a-z0-9_]+ ADD CONSTRAINT", query)
MatchesAlterTableAddConstraint(query) ==
    /\ StartsWith(query, AlterTableText)
    /\ LET s == Len(AlterTableText) + 1
           e == FirstNotIn(query, s, AlterNameChars)
       IN  e > s /\ HasAt(query, e, AddConstraintText)

\* the if / elif chain of _check_ddl_syntax
QueryKind(query) ==
    IF StartsWith(query, CreateTableText) THEN "CreateTable"
    ELSE IF StartsWith(query, CreateIndexText) THEN "CreateIndex"
    ELSE IF StartsWith(query, CreateUniqueIndexText) THEN "CreateUniqueIndex"
    ELSE IF MatchesAlterTableAddConstraint(query) THEN "AlterTableAddConstraint"
    ELSE "Unrecognized"

\* re.sub(r"\n{2}", "", self._ddl).split(";")
Queries(ddl_text) == SplitOn(SubDoubleNewline(ddl_text), ";")

(***************************************************************************)
(* The error classifier of _execute_ddl.                                   *)
(***************************************************************************)
PartitionPrefix ==
    <<"p", "r", "i", "m", "a", "r", "y", " ", "k", "e", "y", " ", "c", "o",
      "n", "s", "t", "r", "a", "i", "n", "t", " ", "o", "n", " ", "t", "a",
      "b", "l", "e", " ", "\"">>

PartitionMiddle ==
    <<"\"", " ", "l", "a", "c", "k", "s", " ", "c", "o", "l", "u", "m", "n",
      " ", "\"">>

PartitionSuffix ==
    <<"\"", " ", "w", "h", "i", "c", "h", " ", "i", "s", " ", "p", "a", "r",
      "t", " ", "o", "f", " ", "t", "h", "e", " ", "p", "a", "r", "t", "i",
      "t", "i", "o", "n", " ", "k", "e", "y">>

\* `.+` : at least one character, none of them a line break
DotPlus(s, from, to) ==
    /\ from <= to
    /\ \A k \in from..to : s[k] # NL

\* the matches of the partition pattern in s, each as the positions
\* <<i, a, b>> of the prefix, the middle and the suffix literal; the pattern
\* ends with an unescaped `.`, one more character that is not a line break
PartitionMatches(s) ==
    LET starts == {i \in 1..Len(s) : HasAt(s, i, PartitionPrefix)}
        middles == {a \in 1..Len(s) : HasAt(s, a, PartitionMiddle)}
        suffixes == {b \in 1..Len(s) :
                       /\ HasAt(s, b, PartitionSuffix)
                       /\ b + Len(PartitionSuffix) <= Len(s)
                       /\ s[b + Len(PartitionSuffix)] # NL}
    IN  {m \in starts \X middles \X suffixes :
           /\ DotPlus(s, m[1] + Len(PartitionPrefix), m[2] - 1)
           /\ DotPlus(s, m[2] + Len(PartitionMiddle), m[3] - 1)}

\* re.search(pattern, s): whether the partition pattern occurs in s
PartitionSearch(s) == PartitionMatches(s) # {}

\* partition_error.group(): the leftmost match, both `.+` greedy
PartitionGroup(s) ==
    LET found == PartitionMatches(s)
        i == Min({m[1] : m \in found})
        a == Max({m[2] : m \in {n \in found : n[1] = i}})
        b == Max({m[3] : m \in {n \in found : n[1] = i /\ n[2] = a}})
    IN  SubSeq(s, i, b + Len(PartitionSuffix))

\* an extraction that reads the tokens one position too early
ParsePartitionErrorTextShifted(partition_error_text) ==
    LET lines == Split(partition_error_text)
    IN  PartitionMsg(lines[5], lines[8])

\* _parse_partition_error_text: the message built from lines[5] and lines[8]
ParsePartitionErrorText(partition_error_text) ==
    LET lines == Split(partition_error_text)
    IN  PartitionMsg(lines[6], lines[9])

\* the message the handler appends for a query-level error with this text
ClassifyError(error_text) ==
    LET original_error_text == Lower(error_text)
    IN  IF PartitionSearch(original_error_text)
        THEN ParsePartitionErrorText(PartitionGroup(original_error_text))
        ELSE RawMsg(original_error_text)

(***************************************************************************)
(* Inputs: DDL documents and the engine's answer to them.                  *)
(***************************************************************************)
TableT == <<"t">>

TableU == <<"u">>

Columns == <<" ", "(", "i", "d", " ", "i", "n", "t", ")">>

ColumnsWithKey ==
    <<" ", "(", "i", "d", " ", "i", "n", "t", ",", " ", "P", "R", "I", "M",
      "A", "R", "Y", " ", "K", "E", "Y", " ", "(", "i", "d", ")", ")">>

OnTable == <<" ", "O", "N", " ", "t", " ", "(", "i", "d", ")">>

PrimaryKeyClause ==
    <<" ", "P", "R", "I", "M", "A", "R", "Y", " ", "K", "E", "Y", " ", "(",
      "i", "d", ")">>

ForeignKeyClause ==
    <<" ", "F", "O", "R", "E", "I", "G", "N", " ", "K", "E", "Y", " ", "(",
      "i", "d", ")", " ", "R", "E", "F", "E", "R", "E", "N", "C", "E", "S",
      " ", "u", " ", "(", "i", "d", ")">>

UniqueClause == <<" ", "U", "N", "I", "Q", "U", "E", " ", "(", "i", "d", ")">>

LongName(n) == [i \in 1..n |-> "n"]

Quoted(name) == <<DQ>> \o name \o <<DQ>>

CreateTableStmt(name, columns) == CreateTableText \o <<" ">> \o name \o columns

CreateIndexStmt(is_unique, name) ==
    (IF is_unique THEN CreateUniqueIndexText ELSE CreateIndexText)
    \o <<" ">> \o name \o OnTable

AlterStmt(table, identifier, clause) ==
    AlterTableText \o table \o AddConstraintText \o <<" ">> \o identifier
    \o clause

\* the statements the pending-primary-key logic is about
CoreStatements ==
    { CreateTableStmt(TableT, Columns),
      CreateTableStmt(TableU, Columns),
      AlterStmt(TableT, <<"t", "_", "p", "k">>, PrimaryKeyClause) }

\* what stands between a `;` and the next statement
Separators == { <<NL, NL>>, <<NL>>, <<" ">> }

IndexNames ==
    { <<"i", "d", "x">>, <<"I", "D", "X">>, <<"I", "d", "x">>,
      Quoted(<<"I", "d", "x">>), <<DQ, "I", "d", "x">>,
      LongName(NameLimit), LongName(NameLimit + 1),
      <<"N">> \o LongName(NameLimit) }

Identifiers ==
    { <<"t", "_", "p", "k">>, <<"T", "P", "k">>, Quoted(<<"T", "P", "k">>),
      Quoted(LongName(NameLimit)), Quoted(LongName(NameLimit + 1)) }

\* statements exercising the naming rules, the unrecognized shapes and the
\* statements too short for their checker
NamingStatements ==
    { CreateTableStmt(TableT, ColumnsWithKey),
      CreateTableStmt(LongName(NameLimit), Columns),
      CreateTableStmt(LongName(NameLimit + 1), ColumnsWithKey),
      CreateTableStmt(Quoted(LongName(NameLimit - 1)), ColumnsWithKey),
      <<"D", "R", "O", "P", " ", "T", "A", "B", "L", "E", " ", "t">>,
      AlterStmt(<<"T">>, <<"t", "_", "p", "k">>, PrimaryKeyClause),
      CreateTableText,
      CreateUniqueIndexText \o <<" ", "i", "d", "x">>,
      AlterTableText \o TableT \o AddConstraintText,
      AlterStmt(TableT, <<"T", "P", "k">>, <<>>),
      AlterStmt(TableT, <<"t", "_", "p", "k">>, <<" ">> \o PrimaryWord) }
    \cup { CreateIndexStmt(u, n) : u \in BOOLEAN, n \in IndexNames }
    \cup { AlterStmt(TableT, id, c) :
             id \in Identifiers,
             c \in {PrimaryKeyClause, ForeignKeyClause, UniqueClause} }

Terminated(stmt) == stmt \o <<";">>

RECURSIVE CoreDocumentsOf(_)
\* the documents of exactly n core statements: the first at the start of the
\* file, every later one after a separator
CoreDocumentsOf(n) ==
    IF n = 0 THEN { <<>> }
    ELSE IF n = 1 THEN { Terminated(s) : s \in CoreStatements }
    ELSE { d \o sep \o Terminated(s) :
             d \in CoreDocumentsOf(n - 1), sep \in Separators,
             s \in CoreStatements }

CoreDocuments == UNION { CoreDocumentsOf(n) : n \in 0..MaxStmts }

NamingDocuments ==
    { Terminated(s) : s \in NamingStatements }
    \cup { Terminated(c) \o <<NL, NL>> \o Terminated(s) :
             c \in CoreStatements, s \in NamingStatements }
    \cup { Terminated(s) \o <<NL, NL>> \o Terminated(c) \o <<NL>> :
             c \in CoreStatements, s \in NamingStatements }

Documents == CoreDocuments \cup NamingDocuments

\* the documents on which the engine's answers are varied
ExecDocuments ==
    CoreDocumentsOf(0) \cup CoreDocumentsOf(1) \cup CoreDocumentsOf(2)
    \cup { Terminated(s) : s \in NamingStatements }

\* str(original_error) of four query-level failures
PartitionErrorText ==
    <<"u", "n", "i", "q", "u", "e", " ", "c", "o", "n", "s", "t", "r", "a",
      "i", "n", "t", " ", "o", "n", " ", "p", "a", "r", "t", "i", "t", "i",
      "o", "n", "e", "d", " ", "t", "a", "b", "l", "e", " ", "m", "u", "s",
      "t", " ", "i", "n", "c", "l", "u", "d", "e", " ", "a", "l", "l", " ",
      "p", "a", "r", "t", "i", "t", "i", "o", "n", "i", "n", "g", " ", "c",
      "o", "l", "u", "m", "n", "s", "\n", "D", "E", "T", "A", "I", "L", ":",
      " ", " ", "P", "R", "I", "M", "A", "R", "Y", " ", "K", "E", "Y", " ",
      "c", "o", "n", "s", "t", "r", "a", "i", "n", "t", " ", "o", "n", " ",
      "t", "a", "b", "l", "e", " ", "\"", "O", "r", "d", "e", "r", "s", "\"",
      " ", "l", "a", "c", "k", "s", " ", "c", "o", "l", "u", "m", "n", " ",
      "\"", "r", "e", "g", "i", "o", "n", "\"", " ", "w", "h", "i", "c", "h",
      " ", "i", "s", " ", "p", "a", "r", "t", " ", "o", "f", " ", "t", "h",
      "e", " ", "p", "a", "r", "t", "i", "t", "i", "o", "n", " ", "k", "e",
      "y", ".", "\n">>

PartitionErrorTextSpaced ==
    <<"P", "R", "I", "M", "A", "R", "Y", " ", "K", "E", "Y", " ", "c", "o",
      "n", "s", "t", "r", "a", "i", "n", "t", " ", "o", "n", " ", "t", "a",
      "b", "l", "e", " ", "\"", "m", "y", " ", "o", "r", "d", "e", "r", "s",
      "\"", " ", "l", "a", "c", "k", "s", " ", "c", "o", "l", "u", "m", "n",
      " ", "\"", "d", "a", "y", "\"", " ", "w", "h", "i", "c", "h", " ", "i",
      "s", " ", "p", "a", "r", "t", " ", "o", "f", " ", "t", "h", "e", " ",
      "p", "a", "r", "t", "i", "t", "i", "o", "n", " ", "k", "e", "y", ".">>

SyntaxErrorText ==
    <<"s", "y", "n", "t", "a", "x", " ", "e", "r", "r", "o", "r", " ", "a",
      "t", " ", "o", "r", " ", "n", "e", "a", "r", " ", "\"", "K", "E", "Y",
      "\"">>

DuplicateErrorText ==
    <<"r", "e", "l", "a", "t", "i", "o", "n", " ", "\"", "t", "\"", " ", "a",
      "l", "r", "e", "a", "d", "y", " ", "e", "x", "i", "s", "t", "s">>

ErrorTexts ==
    { PartitionErrorText, PartitionErrorTextSpaced, SyntaxErrorText,
      DuplicateErrorText }

\* what the engine answers to the submitted DDL: it executes ("ok"), it is
\* rejected with a query-level error (an exception whose orig is not an
\* OperationalError), or the driver raises an exception without an orig
\* attribute
Engine(result, error_text) == [result |-> result, error_text |-> error_text]

OkEngine == Engine("ok", <<>>)

Engines ==
    { OkEngine, Engine("no_orig", <<>>) }
    \cup { Engine("query_error", e) : e \in ErrorTexts }

\* container.attrs["NetworkSettings"]["Ports"]["5432/tcp"] as reload() may
\* report it: not a list yet, or a list of port settings
HostPort == 49153

PortSetting(host_ip) == [HostIp |-> host_ip, HostPort |-> HostPort]

PortReports ==
    { <<>>,
      <<PortSetting("::")>>,
      <<PortSetting("0.0.0.0")>>,
      <<PortSetting("0.0.0.0"), PortSetting("::")>> }

RECURSIVE BindPort(_, _, _)
\* the for loop over port_settings: every setting with HostIp 0.0.0.0
\* assigns bind_port
BindPort(port_settings, i, bind) ==
    IF i > Len(port_settings) THEN bind
    ELSE BindPort(port_settings, i + 1,
                  IF port_settings[i].HostIp = "0.0.0.0"
                  THEN port_settings[i].HostPort ELSE bind)

\* the orders in which `for table_name in set` may visit the set
Orderings(S) ==
    { f \in [1..Cardinality(S) -> S] : \A x \in S : \E i \in DOMAIN f : f[i] = x }

(***************************************************************************)
(* State.                                                                  *)
(***************************************************************************)
VARIABLES
    ddl,                         \* self._ddl
    engine,                      \* the engine's answer to this DDL
    pc,                          \* position of check_ddl
    queries,                     \* the list the for loop of line 77 iterates
    qi,                          \* position of that loop
    no_primary_key_table_names,  \* self._no_primary_key_table_names
    messages,                    \* self.messages
    origin,                      \* per message: the step that appended it
    container,                   \* "none", "running" or "stopped"
    stops,                       \* calls of container.stop()
    bind_port,                   \* bind_port of _execute_ddl
    submits,                     \* calls of conn.execute(text(self._ddl))
    sleeps,                      \* calls of sleep(0.1)
    run,                         \* 1 for the first run on this DDL, 2 for a rerun
    first_messages,              \* what the first run returned
    argv,                        \* sys.argv[1:]: "none", "no_file" or "file"
    exit_status,                 \* the status the process exited with, -1 before
    removed                      \* names an ALTER ... PRIMARY KEY took out of the set

vars ==
    <<ddl, engine, pc, queries, qi, no_primary_key_table_names, messages,
      origin, container, stops, bind_port, submits, sleeps, run,
      first_messages, argv, exit_status, removed>>

input == <<ddl, engine, run, first_messages, argv, exit_status>>

static == <<queries, qi, no_primary_key_table_names, removed>>

orchestrator == <<container, stops, bind_port, submits, sleeps>>

Tag(phase, stmt) == [phase |-> phase, stmt |-> stmt]

Tags(added, phase, stmt) == [i \in 1..Len(added) |-> Tag(phase, stmt)]

\* a new process at the entry of main(); DdlChecker(ddl) constructs the
\* empty set and the empty list
Fresh ==
    /\ pc = "main"
    /\ exit_status = -1
    /\ queries = <<>>
    /\ qi = 0
    /\ no_primary_key_table_names = {}
    /\ removed = {}
    /\ messages = <<>>
    /\ origin = <<>>
    /\ container = "none"
    /\ stops = 0
    /\ bind_port = 0
    /\ submits = 0
    /\ sleeps = 0

Init ==
    /\ \/ argv = "file" /\ ddl \in Documents /\ engine = OkEngine
       \/ argv = "file" /\ ddl \in ExecDocuments /\ engine \in Engines
       \/ argv \in {"none", "no_file"} /\ ddl = <<>> /\ engine = OkEngine
    /\ run = 1
    /\ first_messages = <<>>
    /\ Fresh

(***************************************************************************)
(* main().                                                                 *)
(***************************************************************************)
\* sys.exit(1)
ErrorStatus == 1

\* the status of a process whose main() returns
SuccessStatus == 0

\* lines 7-9: no file argument
MainNoArgument ==
    /\ pc = "main"
    /\ argv = "none"
    /\ exit_status' = ErrorStatus
    /\ pc' = "exited"
    /\ UNCHANGED <<ddl, engine, run, first_messages, argv, static, messages,
                   origin, orchestrator>>

\* lines 11-15: open() raises FileNotFoundError
MainFileNotFound ==
    /\ pc = "main"
    /\ argv = "no_file"
    /\ exit_status' = ErrorStatus
    /\ pc' = "exited"
    /\ UNCHANGED <<ddl, engine, run, first_messages, argv, static, messages,
                   origin, orchestrator>>

\* line 12 and the construction of line 17: the file is read, check_ddl called
MainReadFile ==
    /\ pc = "main"
    /\ argv = "file"
    /\ pc' = "check_ddl"
    /\ UNCHANGED <<input, static, messages, origin, orchestrator>>

\* the two statuses exchanged
ExitStatusInverted(returned) ==
    IF returned # <<>> THEN SuccessStatus ELSE ErrorStatus

\* lines 24-25: sys.exit(1) when the list is not empty, else main() returns
ExitStatus(returned) ==
    IF returned # <<>> THEN ErrorStatus ELSE SuccessStatus

\* lines 19-25, after check_ddl returned
MainExit ==
    /\ pc = "returned"
    /\ exit_status' = ExitStatus(messages)
    /\ pc' = "exited"
    /\ UNCHANGED <<ddl, engine, run, first_messages, argv, static, messages,
                   origin, orchestrator>>

(***************************************************************************)
(* _check_ddl_syntax.                                                      *)
(***************************************************************************)
BeginCheckDdlSyntax ==
    /\ pc = "check_ddl"
    /\ queries' = Queries(ddl)
    /\ qi' = 1
    /\ pc' = "syntax"
    /\ UNCHANGED <<input, no_primary_key_table_names, removed, messages,
                   origin, orchestrator>>

\* one iteration of the for loop whose checker had the given effect
Iterate(effect) ==
    /\ no_primary_key_table_names' = effect.names
    /\ removed' = removed \cup (no_primary_key_table_names \ effect.names)
    /\ messages' = Appended(messages, effect.added)
    /\ origin' = Appended(origin, Tags(effect.added, "static", qi))
    /\ qi' = qi + 1
    /\ pc' = IF effect.fault THEN "fault" ELSE "syntax"
    /\ UNCHANGED <<input, queries, orchestrator>>

InLoop(kind) ==
    /\ pc = "syntax"
    /\ qi <= Len(queries)
    /\ QueryKind(queries[qi]) = kind

CreateTableQuery ==
    /\ InLoop("CreateTable")
    /\ Iterate(CheckCreateTableQuery(queries[qi], no_primary_key_table_names))

CreateIndexQuery ==
    /\ InLoop("CreateIndex")
    /\ Iterate(CheckCreateIndexQuery(queries[qi], FALSE,
                                     no_primary_key_table_names))

CreateUniqueIndexQuery ==
    /\ InLoop("CreateUniqueIndex")
    /\ Iterate(CheckCreateIndexQuery(queries[qi], TRUE,
                                     no_primary_key_table_names))

AlterTableAddConstraintQuery ==
    /\ InLoop("AlterTableAddConstraint")
    /\ Iterate(CheckAlterTableAddConstraintQuery(queries[qi],
                                                 no_primary_key_table_names))

UnrecognizedQuery ==
    /\ InLoop("Unrecognized")
    /\ Iterate(Effect(FALSE, no_primary_key_table_names, <<>>))

\* the loop of lines 87-88, after which check_ddl enters _execute_ddl
ReportNoPrimaryKey ==
    /\ pc = "syntax"
    /\ qi > Len(queries)
    /\ \E order \in Orderings(no_primary_key_table_names) :
         LET added == [i \in DOMAIN order |-> NoPrimaryKeyMsg(order[i])]
         IN  /\ messages' = Appended(messages, added)
             /\ origin' = Appended(origin, Tags(added, "pending", 0))
    /\ pc' = "execute_ddl"
    /\ UNCHANGED <<input, static, orchestrator>>

(***************************************************************************)
(* _execute_ddl.                                                           *)
(***************************************************************************)
\* lines 101-117: the image is present or pulled and the container runs
RunContainer ==
    /\ pc = "execute_ddl"
    /\ container' = "running"
    /\ bind_port' = 0
    /\ pc' = "port_poll"
    /\ UNCHANGED <<input, static, messages, origin, stops, submits, sleeps>>

\* docker raises in from_env, images.list, images.pull or containers.run
RunContainerFault ==
    /\ pc = "execute_ddl"
    /\ pc' = "fault"
    /\ UNCHANGED <<input, static, messages, origin, orchestrator>>

\* a poll that leaves the loop without testing bind_port
PollPortUnchecked ==
    /\ pc = "port_poll"
    /\ \E port_settings \in PortReports :
         /\ bind_port' = BindPort(port_settings, 1, bind_port)
         /\ pc' = "connect"
         /\ sleeps' = sleeps
    /\ UNCHANGED <<input, static, messages, origin, container, stops, submits>>

\* one iteration of the loop of lines 119-131
PollPort ==
    /\ pc = "port_poll"
    /\ \E port_settings \in PortReports :
         LET bound == BindPort(port_settings, 1, bind_port)
         IN  /\ bind_port' = bound
             /\ IF bound # 0
                THEN pc' = "connect" /\ sleeps' = sleeps
                ELSE /\ sleeps < MaxPolls
                     /\ pc' = "port_poll"
                     /\ sleeps' = sleeps + 1
    /\ UNCHANGED <<input, static, messages, origin, container, stops, submits>>

\* container.reload() raises
ReloadFault ==
    /\ pc = "port_poll"
    /\ pc' = "fault"
    /\ UNCHANGED <<input, static, messages, origin, orchestrator>>

\* a handler that reports the refused connection
ConnectRefusedSurfaced ==
    /\ pc = "connect"
    /\ sleeps < MaxPolls
    /\ sleeps' = sleeps + 1
    /\ LET added == <<RawMsg(<<>>)>>
       IN  /\ messages' = Appended(messages, added)
           /\ origin' = Appended(origin, Tags(added, "execute", 0))
    /\ UNCHANGED <<input, static, container, stops, bind_port, submits, pc>>

\* engine.connect() raises an exception whose orig is an OperationalError:
\* pass, sleep, next iteration of the loop of line 139
ConnectRefused ==
    /\ pc = "connect"
    /\ sleeps < MaxPolls
    /\ sleeps' = sleeps + 1
    /\ UNCHANGED <<input, static, messages, origin, container, stops,
                   bind_port, submits, pc>>

\* engine.connect() succeeds: the with block is entered
Connect ==
    /\ pc = "connect"
    /\ pc' = "submit"
    /\ UNCHANGED <<input, static, messages, origin, orchestrator>>

\* conn.execute(text(self._ddl)) returns; break
SubmitOk ==
    /\ pc = "submit"
    /\ engine.result = "ok"
    /\ submits' = submits + 1
    /\ pc' = "stop"
    /\ UNCHANGED <<input, static, messages, origin, container, stops,
                   bind_port, sleeps>>

\* conn.execute raises an exception whose orig is an OperationalError:
\* pass, sleep, next iteration of the loop of line 139
SubmitOperationalError ==
    /\ pc = "submit"
    /\ sleeps < MaxPolls
    /\ submits' = submits + 1
    /\ sleeps' = sleeps + 1
    /\ pc' = "connect"
    /\ UNCHANGED <<input, static, messages, origin, container, stops,
                   bind_port>>

\* conn.execute raises an exception whose orig is not an OperationalError
SubmitQueryError ==
    /\ pc = "submit"
    /\ engine.result = "query_error"
    /\ submits' = submits + 1
    /\ LET added == <<ClassifyError(engine.error_text)>>
       IN  /\ messages' = Appended(messages, added)
           /\ origin' = Appended(origin, Tags(added, "execute", 0))
    /\ pc' = "stop"
    /\ UNCHANGED <<input, static, container, stops, bind_port, sleeps>>

\* conn.execute raises an exception without an orig attribute:
\* getattr(e, "orig") raises AttributeError out of _execute_ddl
SubmitFault ==
    /\ pc = "submit"
    /\ engine.result = "no_orig"
    /\ submits' = submits + 1
    /\ pc' = "fault"
    /\ UNCHANGED <<input, static, messages, origin, container, stops,
                   bind_port, sleeps>>

\* lines 168-174: container.stop() and the return of self.messages
StopContainer ==
    /\ pc = "stop"
    /\ container' = "stopped"
    /\ stops' = stops + 1
    /\ pc' = "returned"
    /\ UNCHANGED <<input, static, messages, origin, bind_port, submits,
                   sleeps>>

Next ==
    \/ MainNoArgument
    \/ MainFileNotFound
    \/ MainReadFile
    \/ MainExit
    \/ BeginCheckDdlSyntax
    \/ CreateTableQuery
    \/ CreateIndexQuery
    \/ CreateUniqueIndexQuery
    \/ AlterTableAddConstraintQuery
    \/ UnrecognizedQuery
    \/ ReportNoPrimaryKey
    \/ RunContainer
    \/ RunContainerFault
    \/ PollPort
    \/ ReloadFault
    \/ ConnectRefused
    \/ Connect
    \/ SubmitOk
    \/ SubmitOperationalError
    \/ SubmitQueryError
    \/ SubmitFault
    \/ StopContainer

Spec == Init /\ [][Next]_vars

(***************************************************************************)
(* A second run of the checker on the same DDL text: a new process, a new  *)
(* DdlChecker and a new container; the engine answers the same DDL alike.  *)
(***************************************************************************)
Rerun ==
    /\ pc = "returned"
    /\ run = 1
    /\ run' = 2
    /\ first_messages' = messages
    /\ pc' = "main"
    /\ exit_status' = -1
    /\ queries' = <<>>
    /\ qi' = 0
    /\ no_primary_key_table_names' = {}
    /\ removed' = {}
    /\ messages' = <<>>
    /\ origin' = <<>>
    /\ container' = "none"
    /\ stops' = 0
    /\ bind_port' = 0
    /\ submits' = 0
    /\ sleeps' = 0
    /\ UNCHANGED <<ddl, engine, argv>>

InitTwice ==
    /\ \/ argv = "file" /\ ddl \in ExecDocuments /\ engine \in Engines
       \/ argv \in {"none", "no_file"} /\ ddl = <<>> /\ engine = OkEngine
    /\ run = 1
    /\ first_messages = <<>>
    /\ Fresh

NextTwice == Next \/ Rerun

SpecTwice == InitTwice /\ [][NextTwice]_vars

(***************************************************************************)
(* check_ddl as a running process: a step that can be taken is taken.  The *)
(* engines include one that answers this DDL with an OperationalError at   *)
(* every submission (e.g. SQLSTATE class 54, program limit exceeded); once *)
(* the counters have reached their bound the retry goes on uncounted.      *)
(***************************************************************************)
OperationalErrorEngine == Engine("operational_error", <<>>)

LiveEngines ==
    { OkEngine, Engine("no_orig", <<>>), Engine("query_error", SyntaxErrorText),
      OperationalErrorEngine }

\* lines 147-150 and 166 again: pass, sleep, next iteration of the loop
SubmitOperationalErrorAgain ==
    /\ pc = "submit"
    /\ engine = OperationalErrorEngine
    /\ sleeps >= MaxPolls
    /\ pc' = "connect"
    /\ UNCHANGED <<input, static, messages, origin, orchestrator>>

InitLive ==
    /\ \/ argv = "file" /\ ddl \in ExecDocuments /\ engine \in LiveEngines
       \/ argv \in {"none", "no_file"} /\ ddl = <<>> /\ engine = OkEngine
    /\ run = 1
    /\ first_messages = <<>>
    /\ Fresh

NextLive == Next \/ SubmitOperationalErrorAgain

\* the steps of _execute_ddl, where the two polling loops are; the static
\* pass before it is a finite loop over the statements
ExecuteStep ==
    /\ pc \in {"execute_ddl", "port_poll", "connect", "submit", "stop"}
    /\ NextLive

SpecLive == InitLive /\ [][NextLive]_vars /\ WF_vars(ExecuteStep)

(***************************************************************************)
(* Vocabulary of the properties.                                           *)
(***************************************************************************)
Range(seq) == {seq[i] : i \in DOMAIN seq}

\* _check_ddl_syntax has returned
PassDone ==
    pc \in {"execute_ddl", "port_poll", "connect", "submit", "stop", "returned"}

\* the container has been started by _execute_ddl
ContainerStarted == container # "none"

\* check_ddl has been left, by return or by an exception
Exited == pc \in {"returned", "fault"}

\* a text without its leading and trailing whitespace
Trim(s) ==
    LET inner == {k \in 1..Len(s) : s[k] \notin Whitespace}
    IN  IF inner = {} THEN <<>> ELSE SubSeq(s, Min(inner), Max(inner))

\* the statements of the document as the specification describes them:
\* the texts between the terminators, trimmed
Statements ==
    LET parts == SplitOn(ddl, ";")
    IN  [i \in DOMAIN parts |-> Trim(parts[i])]

\* a CREATE TABLE statement without the phrase PRIMARY KEY
CreatesWithoutKey(stmt) ==
    /\ StartsWith(stmt, CreateTableText)
    /\ Len(Split(stmt)) >= 3
    /\ ~Contains(stmt, PrimaryKeyText)

\* ALTER TABLE <table> ADD CONSTRAINT <id> PRIMARY KEY ...
AddsPrimaryKey(stmt, table) ==
    /\ StartsWith(stmt, AlterTableText \o table \o AddConstraintText \o <<" ">>)
    /\ Len(Split(stmt)) >= 8
    /\ Split(stmt)[7] = PrimaryWord
    /\ Split(stmt)[8] = KeyWord

\* how many messages equal m
Count(m) == Cardinality({k \in DOMAIN messages : messages[k] = m})

PhaseRank(tag) ==
    IF tag.phase = "static" THEN 1 ELSE IF tag.phase = "pending" THEN 2 ELSE 3

StaticKinds ==
    {"table_len", "index_case", "index_len", "ident_case", "ident_len", "order"}

ExecuteTags == {k \in DOMAIN origin : origin[k].phase = "execute"}

\* the name a recognized CREATE statement is checked for
CheckedName(query) ==
    Split(query)[IF QueryKind(query) = "CreateUniqueIndex" THEN 4 ELSE 3]

(***************************************************************************)
(* C1.  For one call of check_ddl, on every exit path (return or raised    *)
(* fault) taken after the container was started, container.stop() has been *)
(* called exactly once.                                                    *)
(***************************************************************************)
C1_StoppedExactlyOnce == (Exited /\ ContainerStarted) => stops = 1

(***************************************************************************)
(* C2.  In one call of check_ddl the DDL is submitted to the engine        *)
(* exactly once: never a second time, whatever the outcome of the          *)
(* submission, and once when check_ddl returns.                            *)
(***************************************************************************)
C2_SubmittedExactlyOnce ==
    /\ submits <= 1
    /\ pc = "returned" => submits = 1

(***************************************************************************)
(* C3.  Every CREATE TABLE statement of the document, wherever it stands   *)
(* and whatever whitespace separates it, that lacks PRIMARY KEY and is not *)
(* followed by an ALTER TABLE <same table> ADD CONSTRAINT ... PRIMARY KEY  *)
(* has exactly one missing-primary-key diagnostic after the static pass.   *)
(***************************************************************************)
C3_MissingKeyReported ==
    PassDone =>
      \A i \in DOMAIN Statements :
        (/\ CreatesWithoutKey(Statements[i])
         /\ ~\E j \in DOMAIN Statements :
               j > i /\ AddsPrimaryKey(Statements[j], Split(Statements[i])[3]))
        => Count(NoPrimaryKeyMsg(Split(Statements[i])[3])) = 1

(***************************************************************************)
(* C4.  When a CREATE TABLE t without PRIMARY KEY is followed later by     *)
(* ALTER TABLE t ADD CONSTRAINT <id> PRIMARY KEY, t has left the pending   *)
(* set after the static pass and no missing-primary-key diagnostic names   *)
(* t.                                                                      *)
(***************************************************************************)
C4_KeyAddedLater ==
    PassDone =>
      \A i \in DOMAIN Statements :
        (/\ CreatesWithoutKey(Statements[i])
         /\ \E j \in DOMAIN Statements :
              j > i /\ AddsPrimaryKey(Statements[j], Split(Statements[i])[3]))
        => /\ Split(Statements[i])[3] \notin no_primary_key_table_names
           /\ Count(NoPrimaryKeyMsg(Split(Statements[i])[3])) = 0

(***************************************************************************)
(* C5.  The returned list is the per-statement diagnostics in document     *)
(* order, then the missing-primary-key diagnostics, then at most one       *)
(* diagnostic of the execution phase, none when the DDL executed; no step  *)
(* alters or reorders the diagnostics appended before it.                  *)
(***************************************************************************)
C5_Ordered ==
    pc = "returned" =>
      /\ Len(origin) = Len(messages)
      /\ \A i, j \in DOMAIN origin :
           i < j => /\ PhaseRank(origin[i]) <= PhaseRank(origin[j])
                    /\ origin[i].phase = "static" /\ origin[j].phase = "static"
                       => origin[i].stmt <= origin[j].stmt
      /\ \A i \in DOMAIN origin :
           /\ origin[i].phase = "static" <=> messages[i].kind \in StaticKinds
           /\ origin[i].phase = "pending" <=> messages[i].kind = "no_pk"
      /\ Cardinality(ExecuteTags) <= 1
      /\ engine.result = "ok" => ExecuteTags = {}

C5_Kept ==
    /\ Len(messages') >= Len(messages)
    /\ SubSeq(messages', 1, Len(messages)) = messages

C5_Aggregation == []C5_Ordered /\ [][C5_Kept]_vars

C5_Witness ==
    /\ pc = "returned"
    /\ \E i, j, k \in DOMAIN origin :
         /\ origin[i].phase = "static"
         /\ origin[j].phase = "pending"
         /\ origin[k].phase = "execute"

(***************************************************************************)
(* C6.  A query-level failure whose text does not match the partition      *)
(* pattern adds the engine's failure text itself, character for character. *)
(***************************************************************************)
C6_RawTextVerbatim ==
    (/\ pc \in {"stop", "returned"}
     /\ engine.result = "query_error"
     /\ ~PartitionSearch(Lower(engine.error_text)))
    => messages[Len(messages)] = RawMsg(engine.error_text)

C8_LengthBoundary ==
    PassDone =>
      \A i \in DOMAIN queries :
        /\ QueryKind(queries[i]) = "CreateTable"
           => (TableLenMsg(CheckedName(queries[i])) \in Range(messages)
               <=> Len(CheckedName(queries[i])) >= 64)
        /\ QueryKind(queries[i]) \in {"CreateIndex", "CreateUniqueIndex"}
           => (IndexLenMsg(CheckedName(queries[i])) \in Range(messages)
               <=> Len(CheckedName(queries[i])) >= 64)

C8_Witness ==
    /\ pc = "returned"
    /\ \E i \in DOMAIN queries :
         /\ QueryKind(queries[i]) = "CreateUniqueIndex"
         /\ Len(Split(queries[i])[4]) = 64
         /\ IndexLenMsg(Split(queries[i])[4]) \in Range(messages)

(***************************************************************************)
(* C9.  For a recognized CREATE INDEX or CREATE UNIQUE INDEX statement the *)
(* case-mixing diagnostic is emitted if and only if the index name has an  *)
(* uppercase and a lowercase letter and is not wrapped in double quotes.   *)
(***************************************************************************)
C9_CaseMixing ==
    PassDone =>
      \A i \in DOMAIN queries :
        QueryKind(queries[i]) \in {"CreateIndex", "CreateUniqueIndex"}
        => LET name == CheckedName(queries[i])
           IN  IndexCaseMsg(name) \in Range(messages)
               <=> /\ \E k \in DOMAIN name : name[k] \in UpperLetters
                   /\ \E k \in DOMAIN name : name[k] \in LowerLetters
                   /\ ~(Head(name) = DQ /\ name[Len(name)] = DQ)

C9_Witness ==
    /\ pc = "returned"
    /\ \E i \in DOMAIN queries :
         /\ QueryKind(queries[i]) = "CreateIndex"
         /\ Split(queries[i])[3] = Quoted(<<"I", "d", "x">>)
    /\ messages = <<>>

(***************************************************************************)
(* C10.  Two runs of the checker on the identical DDL text return          *)
(* identical diagnostic lists: the same messages in the same order.        *)
(***************************************************************************)
C10_SameDiagnostics ==
    (run = 2 /\ pc = "returned") => messages = first_messages

(***************************************************************************)
(* C11.  The static pass has no error conditions: whatever the document,   *)
(* malformed statements included, no iteration of the statement loop       *)
(* raises a fault, so the pass always completes and _execute_ddl is        *)
(* entered.                                                                *)
(***************************************************************************)
C11_NoStaticFault == [][pc = "syntax" => pc' # "fault"]_vars

(***************************************************************************)
(* C12.  Transient readiness failures are never surfaced: a port poll      *)
(* without a bound port and a connection attempt refused with an           *)
(* OperationalError append nothing, so the list check_ddl returns is the   *)
(* list of the static pass followed by what the submission alone produced, *)
(* however many polls and refused attempts came before it.                 *)
(***************************************************************************)
C12_Quiet ==
    pc \in {"port_poll", "connect"} => messages' = messages /\ origin' = origin

C12_ReadyList ==
    pc = "returned" =>
      /\ \A k \in DOMAIN origin : k < Len(origin) => origin[k].phase # "execute"
      /\ engine.result = "ok" => ExecuteTags = {}
      /\ engine.result = "query_error"
         => /\ ExecuteTags = {Len(messages)}
            /\ messages[Len(messages)] = ClassifyError(engine.error_text)

C12_TransientSilent == [][C12_Quiet]_vars /\ []C12_ReadyList

C12_Witness ==
    /\ pc = "returned"
    /\ sleeps >= 2
    /\ submits = 1
    /\ engine.result = "query_error"

(***************************************************************************)
(* C13.  When the file was read and check_ddl returned, the process exits  *)
(* with status 1 exactly when the returned list is not empty and with      *)
(* status 0 when it is empty; without a file argument, or with a file that *)
(* does not exist, it exits with status 1 and no container was ever        *)
(* started.                                                                *)
(***************************************************************************)
C13_ExitStatus ==
    pc = "exited" =>
      /\ argv = "file"
         => /\ messages # <<>> => exit_status = 1
            /\ messages = <<>> => exit_status = 0
            /\ container = "stopped"
      /\ argv \in {"none", "no_file"}
         => /\ exit_status = 1
            /\ container = "none"
            /\ bind_port = 0 /\ submits = 0 /\ stops = 0 /\ sleeps = 0

C13_Witness ==
    /\ pc = "exited"
    /\ argv = "file"
    /\ messages # <<>>
    /\ exit_status = 1

(***************************************************************************)
(* C14.  Once a connection succeeded and the DDL was submitted, whatever   *)
(* the outcome (executed, partition-key error, other error of the          *)
(* submission), handling the outcome raises no fault that leaves check_ddl *)
(* without the stop: the container runs until the stop and has been        *)
(* stopped, once, when check_ddl returns.                                  *)
(***************************************************************************)
C14_StoppedAfterSubmission ==
    submits >= 1
    => /\ pc # "fault"
       /\ pc \in {"connect", "submit", "stop"}
          => container = "running" /\ stops = 0
       /\ pc \in {"returned", "exited"}
          => container = "stopped" /\ stops = 1

(***************************************************************************)
(* C15.  As claimed: once an ALTER TABLE ... ADD CONSTRAINT ... PRIMARY    *)
(* KEY has removed a table name from the pending set, the name is never in *)
(* the set again during that pass.                                         *)
(***************************************************************************)
C15_NeverReAdded == removed \cap no_primary_key_table_names = {}

(***************************************************************************)
(* C15, amended.  A name removed by an ALTER ... PRIMARY KEY comes back    *)
(* into the pending set only through a later CREATE TABLE of that name     *)
(* without PRIMARY KEY; no ALTER, CREATE INDEX or unrecognized statement   *)
(* puts it back.                                                           *)
(***************************************************************************)
C15_PutBack(name) ==
    /\ name \notin no_primary_key_table_names
    /\ name \in no_primary_key_table_names'

C15_ByCreateTable(name) ==
    /\ pc = "syntax"
    /\ qi <= Len(queries)
    /\ QueryKind(queries[qi]) = "CreateTable"
    /\ Len(Split(queries[qi])) >= 3
    /\ Split(queries[qi])[3] = name
    /\ ~Contains(queries[qi], PrimaryKeyText)

C15_ReAddedOnlyByCreateTable ==
    [][\A name \in removed : C15_PutBack(name) => C15_ByCreateTable(name)]_vars

C15_Witness ==
    /\ removed \cap no_primary_key_table_names # {}
    /\ qi = 4

(***************************************************************************)
(* C16.  A recognized ALTER TABLE t ADD CONSTRAINT <id> PRIMARY KEY does   *)
(* exactly one of two things: with t pending it removes t and adds no      *)
(* ordering diagnostic; otherwise it adds exactly one ordering diagnostic, *)
(* naming t, and leaves the pending set alone.  With FOREIGN KEY or UNIQUE *)
(* as the constraint kind the pending set is left alone and no ordering    *)
(* diagnostic is added.                                                    *)
(***************************************************************************)
C16_AlterStep ==
    /\ pc = "syntax"
    /\ qi <= Len(queries)
    /\ QueryKind(queries[qi]) = "AlterTableAddConstraint"
    /\ Len(Split(queries[qi])) >= 8

\* the ordering diagnostics among the messages a step appended
C16_OrderingAdded ==
    LET added == SubSeq(messages', Len(messages) + 1, Len(messages'))
    IN  [k \in {i \in DOMAIN added : added[i].kind = "order"} |-> added[k].name]

C16_Effect ==
    C16_AlterStep =>
      LET tokens == Split(queries[qi])
          t == tokens[3]
          pending == no_primary_key_table_names
      IN  /\ (tokens[7] = PrimaryWord /\ tokens[8] = KeyWord /\ t \in pending)
             => /\ no_primary_key_table_names' = pending \ {t}
                /\ DOMAIN C16_OrderingAdded = {}
          /\ (tokens[7] = PrimaryWord /\ tokens[8] = KeyWord /\ t \notin pending)
             => /\ no_primary_key_table_names' = pending
                /\ Cardinality(DOMAIN C16_OrderingAdded) = 1
                /\ \A k \in DOMAIN C16_OrderingAdded : C16_OrderingAdded[k] = t
          /\ (\/ tokens[7] = ForeignWord /\ tokens[8] = KeyWord
              \/ tokens[7] = UniqueWord)
             => /\ no_primary_key_table_names' = pending
                /\ DOMAIN C16_OrderingAdded = {}

C16_AlterFrame == [][C16_Effect]_vars

C16_Witness ==
    /\ pc = "returned"
    /\ removed # {}
    /\ \E k \in DOMAIN messages :
         messages[k].kind = "order" /\ messages[k].name \in removed

(***************************************************************************)
(* C17.  After the static pass every name still in the pending set is a    *)
(* table that received no primary key anywhere in the document: no CREATE  *)
(* TABLE statement for that name contains PRIMARY KEY and no ALTER TABLE   *)
(* <name> ADD CONSTRAINT ... PRIMARY KEY statement occurs in it.           *)
(***************************************************************************)
C17_CreatesWithKey(stmt, table) ==
    /\ StartsWith(stmt, CreateTableText)
    /\ Len(Split(stmt)) >= 3
    /\ Split(stmt)[3] = table
    /\ Contains(stmt, PrimaryKeyText)

C17_PendingNeverKeyed ==
    PassDone =>
      \A name \in no_primary_key_table_names :
        \A i \in DOMAIN Statements :
          /\ ~C17_CreatesWithKey(Statements[i], name)
          /\ ~AddsPrimaryKey(Statements[i], name)

(***************************************************************************)
(* C18.  The length limit is measured without the surrounding double       *)
(* quotes: for a CREATE TABLE whose name is written in double quotes, and  *)
(* for a quoted constraint identifier of ALTER TABLE ... ADD CONSTRAINT,   *)
(* the length diagnostic is emitted exactly when the name inside the       *)
(* quotes has more than 63 characters.                                     *)
(***************************************************************************)
C18_IsQuoted(name) ==
    Len(name) >= 2 /\ Head(name) = DQ /\ name[Len(name)] = DQ

C18_Inside(name) == SubSeq(name, 2, Len(name) - 1)

C18_UnquotedLength ==
    PassDone =>
      \A i \in DOMAIN queries :
        LET tokens == Split(queries[i])
        IN  /\ (/\ QueryKind(queries[i]) = "CreateTable"
                /\ C18_IsQuoted(tokens[3]))
               => (TableLenMsg(tokens[3]) \in Range(messages)
                   <=> Len(C18_Inside(tokens[3])) > 63)
            /\ (/\ QueryKind(queries[i]) = "AlterTableAddConstraint"
                /\ C18_IsQuoted(tokens[6]))
               => (IdentLenMsg(tokens[6]) \in Range(messages)
                   <=> Len(C18_Inside(tokens[6])) > 63)

(***************************************************************************)
(* C19.  _execute_ddl passes through its lifecycle in order: the container *)
(* is started first, no connection is attempted before a non-zero host     *)
(* port was observed, the DDL is submitted only inside a connection that   *)
(* succeeded, and the container is stopped only after a submission has     *)
(* finished.                                                               *)
(***************************************************************************)
C19_Ordered ==
    /\ pc \in {"port_poll", "connect", "submit", "stop"} => container = "running"
    /\ pc \in {"connect", "submit", "stop", "returned"} => bind_port # 0
    /\ submits >= 1 => bind_port # 0 /\ container # "none"
    /\ pc \in {"stop", "returned"} => submits >= 1
    /\ stops >= 1 => submits >= 1 /\ pc \in {"returned", "exited"}
    /\ container = "stopped" <=> stops >= 1

C19_Step ==
    /\ (pc' = "port_poll" /\ pc # "port_poll") => pc = "execute_ddl"
    /\ (pc' = "connect" /\ pc # "connect")
       => pc \in {"port_poll", "submit"} /\ bind_port' # 0
    /\ (pc' = "submit" /\ pc # "submit") => pc = "connect"
    /\ submits' # submits => pc = "submit" /\ submits' = submits + 1
    /\ pc' = "stop" => pc = "submit" /\ submits' = submits + 1
    /\ stops' # stops => pc = "stop" /\ pc' = "returned"
    /\ bind_port' # bind_port => pc = "port_poll"

C19_Lifecycle == []C19_Ordered /\ [][C19_Step]_vars

C19_Witness ==
    /\ pc = "returned"
    /\ container = "stopped"
    /\ bind_port = HostPort
    /\ submits = 1
    /\ sleeps >= 1

(***************************************************************************)
(* C20.  Under the environment assumption of the claim, which holds once   *)
(* the host port has been reported and a connection has been accepted      *)
(* (pc = "submit"), check_ddl eventually stops the container and returns.  *)
(* Engines whose exception carries no orig attribute (the fault of C14)    *)
(* are left aside.                                                         *)
(***************************************************************************)
C20_ReturnsOnceReady ==
    (pc = "submit" /\ engine.result # "no_orig")
      ~> (pc = "returned" /\ container = "stopped")

====
